---- MODULE Spec2Model ----
(***************************************************************************)
(* Model of the validate-token edge worker (src/src/lib.rs): the fetch     *)
(* handler, extract_client_ip, verify_hmac_token, generate_hash and        *)
(* constant_time_compare.                                                  *)
(*                                                                         *)
(* Strings are sequences of one-character strings, so that split, trim,    *)
(* parse and the form-urlencoding of the outbound query are computed on    *)
(* characters as the code computes them.  An f64 is a record: a finite     *)
(* value (an integer here; fractional seconds are outside the modelled     *)
(* inputs), an infinity or NaN.  HMAC-SHA256 is abstracted to a small      *)
(* keyed checksum and its base64 text to three symbols of the standard     *)
(* alphabet ('+' and '/' among them) followed by the '=' padding that a    *)
(* 32-byte digest always gets.                                             *)
(***************************************************************************)
EXTENDS Integers, Sequences, FiniteSets, TLC

VARIABLES
    pc,      \* position of the fetch handler: "idle", "awaiting", "done"
    req,     \* the inbound Request: method, headers, body, query
    env,     \* the Env bindings: HMAC_SECRET, TOKEN_VALIDITY_SECONDS
    now,     \* Date::now() / 1000.0 as read by verify_hmac_token
    local,   \* the handler's locals that outlive the outbound await
    sent,    \* the requests handed to Fetch::Request(..).send(), in order
    origin,  \* the origin's response to the outbound request, once given
    result,  \* what fetch returned: a Response, an Err, or a panic
    call,    \* arguments of a direct call of one of the free functions
    ret      \* its return value

vars == <<pc, req, env, now, local, sent, origin, result, call, ret>>

None == [k |-> "None"]
Some(v) == [k |-> "Some", v |-> v]

----------------------------------------------------------------------------
(* Characters and bytes                                                    *)

\* The printable ASCII characters in code order, 0x20 .. 0x7E (0x60 is held
\* by a placeholder: the character cannot be written in a string here).
Ascii ==
    <<" ", "!", "\"", "#", "$", "%", "&", "'", "(", ")", "*", "+", ",", "-",
      ".", "/", "0", "1", "2", "3", "4", "5", "6", "7", "8", "9", ":", ";",
      "<", "=", ">", "?", "@", "A", "B", "C", "D", "E", "F", "G", "H", "I",
      "J", "K", "L", "M", "N", "O", "P", "Q", "R", "S", "T", "U", "V", "W",
      "X", "Y", "Z", "[", "\\", "]", "^", "_", "grave", "a", "b", "c", "d", "e",
      "f", "g", "h", "i", "j", "k", "l", "m", "n", "o", "p", "q", "r", "s",
      "t", "u", "v", "w", "x", "y", "z", "{", "|", "}", "~">>

\* str::bytes of a one-character string.
byte(c) == 31 + (CHOOSE i \in 1..Len(Ascii) : Ascii[i] = c)

RECURSIVE bit_xor(_, _)
\* u8 ^ u8
bit_xor(a, b) ==
    IF a = 0 /\ b = 0 THEN 0
    ELSE (((a % 2) + (b % 2)) % 2) + 2 * bit_xor(a \div 2, b \div 2)

RECURSIVE bit_or(_, _)
\* u8 | u8
bit_or(a, b) ==
    IF a = 0 /\ b = 0 THEN 0
    ELSE (IF a % 2 = 1 \/ b % 2 = 1 THEN 1 ELSE 0)
         + 2 * bit_or(a \div 2, b \div 2)

----------------------------------------------------------------------------
(* str methods                                                             *)

is_empty(s) == Len(s) = 0

\* str::find(pat), counted from 1: index of the leftmost occurrence of pat
\* in s, 0 for None.
find(s, pat) ==
    LET hits == {j \in 1..(Len(s) - Len(pat) + 1) :
                    SubSeq(s, j, j + Len(pat) - 1) = pat}
    IN  IF hits = {} THEN 0 ELSE CHOOSE j \in hits : \A h \in hits : j <= h

RECURSIVE split_at(_, _, _)
\* The pieces of s, given that the leftmost occurrence of pat is at j.
split_at(s, pat, j) ==
    IF j = 0 THEN <<s>>
    ELSE LET rest == SubSeq(s, j + Len(pat), Len(s))
         IN  <<SubSeq(s, 1, j - 1)>> \o split_at(rest, pat, find(rest, pat))

\* str::split(pat).collect(): leftmost, non-overlapping matches; never empty.
split(s, pat) == split_at(s, pat, find(s, pat))

\* str::split_once(pat)
split_once(s, pat) ==
    LET j == find(s, pat)
    IN  IF j = 0 THEN None
        ELSE Some(<<SubSeq(s, 1, j - 1), SubSeq(s, j + Len(pat), Len(s))>>)

RECURSIVE trim_start(_)
trim_start(s) ==
    IF Len(s) > 0 /\ s[1] = " " THEN trim_start(Tail(s)) ELSE s

RECURSIVE trim_end(_)
trim_end(s) ==
    IF Len(s) > 0 /\ s[Len(s)] = " "
    THEN trim_end(SubSeq(s, 1, Len(s) - 1)) ELSE s

\* str::trim
trim(s) == trim_end(trim_start(s))

----------------------------------------------------------------------------
(* f64: parse, subtraction, comparison, Display                            *)

Fin(n) == [k |-> "fin", v |-> n]
Inf(sign) == [k |-> "inf", v |-> sign]
NaN == [k |-> "nan", v |-> 0]

Digits == <<"0", "1", "2", "3", "4", "5", "6", "7", "8", "9">>
is_digit(c) == \E i \in 1..10 : Digits[i] = c
digit_value(c) == (CHOOSE i \in 1..10 : Digits[i] = c) - 1
all_digits(s) == \A i \in 1..Len(s) : is_digit(s[i])
all_zeros(s) == \A i \in 1..Len(s) : s[i] = "0"

RECURSIVE decimal_value(_)
decimal_value(s) ==
    IF Len(s) = 0 THEN 0
    ELSE 10 * decimal_value(SubSeq(s, 1, Len(s) - 1)) + digit_value(s[Len(s)])

\* The magnitude part of <f64 as FromStr>: digits with an optional point and
\* a zero fraction, or one of the special words.
parse_magnitude(s) ==
    LET parts == split(s, <<".">>)
        int == parts[1]
        frac == IF Len(parts) = 2 THEN parts[2] ELSE <<>>
    IN  IF s \in {<<"i", "n", "f">>, <<"I", "n", "f">>,
                  <<"i", "n", "f", "i", "n", "i", "t", "y">>}
        THEN Some(Inf(1))
        ELSE IF s \in {<<"N", "a", "N">>, <<"n", "a", "n">>}
        THEN Some(NaN)
        ELSE IF /\ Len(parts) <= 2
                /\ Len(int) + Len(frac) > 0
                /\ all_digits(int)
                /\ all_zeros(frac)
        THEN Some(Fin(decimal_value(int)))
        ELSE None

f64_neg(x) ==
    IF x.k = "nan" THEN x ELSE [x EXCEPT !.v = 0 - x.v]

\* str::parse::<f64>(): Ok(value) or Err.
parse_f64(s) ==
    IF Len(s) > 0 /\ s[1] \in {"+", "-"}
    THEN LET m == parse_magnitude(Tail(s))
         IN  IF m = None THEN None
             ELSE IF s[1] = "-" THEN Some(f64_neg(m.v)) ELSE m
    ELSE parse_magnitude(s)

\* a - b
f64_sub(a, b) ==
    IF a.k = "nan" \/ b.k = "nan" THEN NaN
    ELSE IF a.k = "inf" /\ b.k = "inf"
         THEN IF a.v = b.v THEN NaN ELSE a
    ELSE IF a.k = "inf" THEN a
    ELSE IF b.k = "inf" THEN Inf(0 - b.v)
    ELSE Fin(a.v - b.v)

\* a > b (false whenever either side is NaN)
f64_gt(a, b) ==
    IF a.k = "nan" \/ b.k = "nan" THEN FALSE
    ELSE IF a.k = "inf" THEN a.v = 1 /\ ~(b.k = "inf" /\ b.v = 1)
    ELSE IF b.k = "inf" THEN b.v = -1
    ELSE a.v > b.v

RECURSIVE decimal_digits(_)
decimal_digits(n) ==
    IF n < 10 THEN <<Digits[n + 1]>>
    ELSE decimal_digits(n \div 10) \o <<Digits[(n % 10) + 1]>>

\* <f64 as Display>::fmt, as used by format!("{}", timestamp).
format_f64(x) ==
    IF x.k = "nan" THEN <<"N", "a", "N">>
    ELSE IF x.k = "inf"
         THEN (IF x.v = 1 THEN <<>> ELSE <<"-">>) \o <<"i", "n", "f">>
    ELSE IF x.v < 0 THEN <<"-">> \o decimal_digits(0 - x.v)
    ELSE decimal_digits(x.v)

----------------------------------------------------------------------------
(* generate_hash, constant_time_compare, verify_hmac_token                 *)

\* The symbols the abstract digest text is written in.
B64 == <<"A", "b", "+", "/">>

RECURSIVE keyed_sum(_, _)
keyed_sum(s, m) ==
    IF Len(s) = 0 THEN 1
    ELSE ((keyed_sum(SubSeq(s, 1, Len(s) - 1), m) * m) + byte(s[Len(s)])) % 997

\* Hmac<Sha256> keyed with `key` over `message`, abstracted to 0 .. 63.
hmac_sha256(key, message) ==
    ((keyed_sum(key, 7) * 31) + keyed_sum(message, 13)) % 64

\* BASE64_STANDARD.encode of the digest: three symbols and the padding.
base64_encode(d) ==
    <<B64[(d \div 16) + 1], B64[((d \div 4) % 4) + 1], B64[(d % 4) + 1], "=">>

generate_hash(client_ip, hmac_secret, timestamp) ==
    LET message == client_ip \o <<":">> \o format_f64(timestamp)
    IN  base64_encode(hmac_sha256(hmac_secret, message))

RECURSIVE fold_xor_or(_, _, _)
\* a.bytes().zip(b.bytes()).fold(acc, |acc, (a, b)| acc | (a ^ b))
fold_xor_or(acc, a, b) ==
    IF Len(a) = 0 \/ Len(b) = 0 THEN acc
    ELSE fold_xor_or(bit_or(acc, bit_xor(byte(a[1]), byte(b[1]))),
                     Tail(a), Tail(b))

\* constant_time_compare without its length check: zip stops at the shorter.
constant_time_compare_unchecked(a, b) == fold_xor_or(0, a, b) = 0

constant_time_compare(a, b) ==
    IF Len(a) # Len(b) THEN FALSE
    ELSE fold_xor_or(0, a, b) = 0

\* token_expired with >= for >: a token exactly as old as the window expires.
token_expired_inclusive(current_time, timestamp, validity_seconds) ==
    \/ f64_gt(f64_sub(current_time, timestamp), validity_seconds)
    \/ f64_sub(current_time, timestamp) = validity_seconds

\* current_time - timestamp > validity_seconds
token_expired(current_time, timestamp, validity_seconds) ==
    f64_gt(f64_sub(current_time, timestamp), validity_seconds)

\* current_time is the value of Date::now() / 1000.0 at the call.
verify_hmac_token(client_ip, provided_token, secret, validity_seconds, current_time) ==
    LET token_parts == split(provided_token, <<"-">>)
    IN  IF Len(token_parts) # 2 THEN FALSE
        ELSE LET ts == parse_f64(token_parts[1])
                 provided_hash == token_parts[2]
             IN  IF ts = None THEN FALSE
                 ELSE IF token_expired(current_time, ts.v, validity_seconds)
                 THEN FALSE
                 ELSE constant_time_compare(
                          generate_hash(client_ip, secret, ts.v),
                          provided_hash)

----------------------------------------------------------------------------
(* extract_client_ip                                                       *)

LOOPBACK == <<"1", "2", "7", ".", "0", ".", "0", ".", "1">>

\* headers.get(name).ok().flatten(): Some(value) when the header is there.
header_get(headers, name) == headers[name]

extract_client_ip(headers) ==
    LET cf == header_get(headers, "CF-Connecting-IP")
        xff == header_get(headers, "X-Forwarded-For")
    IN  IF cf # None THEN cf.v
        ELSE IF xff # None THEN trim(split(xff.v, <<",">>)[1])
        ELSE LOOPBACK

----------------------------------------------------------------------------
(* The fetch handler, up to the first await on the origin                  *)

DEFAULT_HMAC_SECRET ==
    <<"d", "e", "f", "a", "u", "l", "t", "-", "s", "e", "c", "r", "e", "t">>
TOKEN_VALIDITY_SECONDS == 300000

FUNCTION_ID == <<"f", "u", "n", "c", "t", "i", "o", "n", "_", "i", "d">>
APPS_LOGIN_DEFAULT ==
    <<"A", "P", "P", "S", "_", "L", "O", "G", "I", "N", "_",
      "D", "E", "F", "A", "U", "L", "T">>
OAIT == <<"o", "a", "i", "t">>

\* Response::from_html(body)?.with_status(status)
from_html(body, status) ==
    [kind |-> "Response", status |-> status, body |-> body,
     headers |-> <<<<"content-type", [fmt |-> "text/html; charset=utf-8",
                                      arg |-> <<>>]>>>>]

\* What the runtime makes of a handler that returned Err(e) or panicked.
Err(msg) == [kind |-> "Err", msg |-> msg]
Panic == [kind |-> "Panic"]

\* env.secret("HMAC_SECRET").ok().map(..).unwrap_or_else(default)
secret_of(e) ==
    IF e.HMAC_SECRET = None THEN DEFAULT_HMAC_SECRET ELSE e.HMAC_SECRET.v

\* env.var("TOKEN_VALIDITY_SECONDS").ok().and_then(parse).unwrap_or(default)
token_validity_seconds_of(e) ==
    LET v == e.TOKEN_VALIDITY_SECONDS
    IN  IF v = None \/ parse_f64(v.v) = None
        THEN Fin(TOKEN_VALIDITY_SECONDS)
        ELSE parse_f64(v.v).v

\* url.query().unwrap_or_default().split('&')
raw_pairs(query) == split(IF query = None THEN <<>> ELSE query.v, <<"&">>)

\* .map(|pair| pair.split_once('=')): one Option per raw pair.
split_pairs(pairs) == [i \in 1..Len(pairs) |-> split_once(pairs[i], <<"=">>)]

\* .collect::<HashMap<&str, &str>>(): a later pair replaces an earlier one
\* with the same key.
collect(kvs) ==
    LET keys == {kvs[i][1] : i \in 1..Len(kvs)}
        last(k) == CHOOSE i \in 1..Len(kvs) :
                      /\ kvs[i][1] = k
                      /\ \A j \in (i + 1)..Len(kvs) : kvs[j][1] # k
    IN  [k \in keys |-> kvs[last(k)][2]]

\* .unwrap() on every pair, then the collect: None when an unwrap panics,
\* else the map.
unwrap_collect(opts) ==
    IF \E i \in 1..Len(opts) : opts[i] = None THEN None
    ELSE Some(collect([i \in 1..Len(opts) |-> opts[i].v]))

\* The query_pairs binding of fetch.
query_pairs_of(query) == unwrap_collect(split_pairs(raw_pairs(query)))

\* HashMap::get
map_get(m, k) == IF k \in DOMAIN m THEN Some(m[k]) ELSE None

\* HashMap::remove
map_remove(m, k) == [x \in (DOMAIN m) \ {k} |-> m[x]]

\* The match on query_pairs.get("function_id").
is_login(query_pairs) ==
    map_get(query_pairs, FUNCTION_ID) = Some(APPS_LOGIN_DEFAULT)

\* oait_param.split("++").collect()
tokens_of(oait_param) == split(oait_param, <<"+", "+">>)

\* too_few_tokens that also counts an empty first segment as missing.
too_few_tokens_nonempty(tokens) == Len(tokens) < 2 \/ is_empty(tokens[1])

\* tokens.len() < 2
too_few_tokens(tokens) == Len(tokens) < 2

forms_token_of(tokens) == tokens[1]
cloudflare_token_of(tokens) == trim(tokens[2])
access_token_of(tokens) == IF Len(tokens) >= 3 THEN tokens[3] ELSE <<>>

----------------------------------------------------------------------------
(* The query rewrite and the outbound request                              *)

Hex == <<"0", "1", "2", "3", "4", "5", "6", "7", "8", "9",
         "A", "B", "C", "D", "E", "F">>

is_unreserved(c) ==
    \/ byte(c) \in 48..57 \/ byte(c) \in 65..90 \/ byte(c) \in 97..122
    \/ c \in {"*", "-", ".", "_"}

\* form_urlencoded::byte_serialize of one byte
encode_byte(c) ==
    IF is_unreserved(c) THEN <<c>>
    ELSE IF c = " " THEN <<"+">>
    ELSE <<"%", Hex[(byte(c) \div 16) + 1], Hex[(byte(c) % 16) + 1]>>

RECURSIVE form_urlencode(_)
form_urlencode(s) ==
    IF Len(s) = 0 THEN <<>>
    ELSE encode_byte(s[1]) \o form_urlencode(Tail(s))

\* query_pairs_mut().append_pair(key, value) on the query text q
append_pair(q, key, value) ==
    (IF Len(q) > 0 THEN q \o <<"&">> ELSE q)
    \o form_urlencode(key) \o <<"=">> \o form_urlencode(value)

RECURSIVE append_pairs(_, _, _)
\* for (key, value) in query_pairs, visiting the keys in `order`
append_pairs(q, order, m) ==
    IF Len(order) = 0 THEN q
    ELSE append_pairs(append_pair(q, order[1], m[order[1]]), Tail(order), m)

\* The orders in which a HashMap's iterator may yield the keys.
iteration_orders(keys) ==
    {o \in [1..Cardinality(keys) -> keys] :
        \A i, j \in 1..Cardinality(keys) : o[i] = o[j] => i = j}

\* append_forms_token without the emptiness test.
append_forms_token_always(q, forms_token) == append_pair(q, OAIT, forms_token)

\* if !forms_token.is_empty() { append_pair("oait", forms_token) }
append_forms_token(q, forms_token) ==
    IF is_empty(forms_token) THEN q ELSE append_pair(q, OAIT, forms_token)

\* new_url's query after clear(), remove("oait"), the loop and the oait
\* append: one text per iteration order of the map.
rewritten_queries(query_pairs, forms_token) ==
    LET rest == map_remove(query_pairs, OAIT)
    IN  {append_forms_token(append_pairs(<<>>, o, rest), forms_token) :
            o \in iteration_orders(DOMAIN rest)}

\* Request::new_with_init(new_url, RequestInit{method, headers, body}); a
\* body that is empty is not attached, which reads as the empty body.
new_request(r, query) ==
    [method |-> r.method, headers |-> r.headers, body |-> r.body,
     query |-> Some(query)]

----------------------------------------------------------------------------
(* Relaying the origin's response                                          *)

SET_COOKIE == "set-cookie"

cookie(access_token) ==
    [fmt |-> "CF_Authorization={}; Path=/; HttpOnly; Secure; SameSite=Strict",
     arg |-> access_token]

RECURSIVE without_header(_, _)
without_header(headers, name) ==
    IF Len(headers) = 0 THEN <<>>
    ELSE (IF headers[1][1] = name THEN <<>> ELSE <<headers[1]>>)
         \o without_header(Tail(headers), name)

\* Headers::set(name, value): every entry of that name gives way to one.
headers_set(headers, name, value) ==
    Append(without_header(headers, name), <<name, value>>)

\* if !access_token.is_empty() { new_headers.set("Set-Cookie", ..) }
with_access_cookie(headers, access_token) ==
    IF is_empty(access_token) THEN headers
    ELSE headers_set(headers, SET_COOKIE, cookie(access_token))

\* Response::from_body(body).with_headers(new_headers).with_status(status)
relay_response(new_response, access_token) ==
    [kind |-> "Response", status |-> new_response.status,
     body |-> new_response.body,
     headers |-> with_access_cookie(new_response.headers, access_token)]

----------------------------------------------------------------------------
(* fetch, from its entry to its first return or outbound send              *)

NoLocals == [path |-> "none", verified |-> "not_called",
             forms_token |-> <<>>, access_token |-> <<>>]

\* The result of the call at lines 78-83.
verified_of(r, e, t, tokens) ==
    verify_hmac_token(extract_client_ip(r.headers),
                      cloudflare_token_of(tokens), secret_of(e),
                      token_validity_seconds_of(e), t)

\* The path the handler takes and what it returns when it returns early.
handle(r, e, t) ==
    LET qp == query_pairs_of(r.query)
        oait == map_get(qp.v, OAIT)
        tokens == tokens_of(oait.v)
        ok == verified_of(r, e, t, tokens)
        seen == NoLocals
    IN  IF is_empty(secret_of(e))
        THEN [path |-> "returned", ret |-> from_html("missing secret", 400),
              loc |-> NoLocals]
        ELSE IF qp = None
        THEN [path |-> "returned", ret |-> Panic, loc |-> NoLocals]
        ELSE IF ~is_login(qp.v)
        THEN [path |-> "bypass", ret |-> None,
              loc |-> [seen EXCEPT !.path = "bypass"]]
        ELSE IF oait = None
        THEN [path |-> "returned", ret |-> Err(""),
              loc |-> [seen EXCEPT !.path = "login"]]
        ELSE IF is_empty(oait.v)
        THEN [path |-> "returned",
              ret |-> from_html("Missing oait parameter", 400),
              loc |-> [seen EXCEPT !.path = "login"]]
        ELSE IF too_few_tokens(tokens)
        THEN [path |-> "returned",
              ret |-> from_html("Invalid token format", 403),
              loc |-> [seen EXCEPT !.path = "login"]]
        ELSE IF ~ok
        THEN [path |-> "returned",
              ret |-> from_html("Invalid or expired token", 403),
              loc |-> [seen EXCEPT !.path = "login", !.verified = "false",
                                   !.forms_token = forms_token_of(tokens),
                                   !.access_token = access_token_of(tokens)]]
        ELSE [path |-> "accepted", ret |-> None,
              loc |-> [seen EXCEPT !.path = "login", !.verified = "true",
                                   !.forms_token = forms_token_of(tokens),
                                   !.access_token = access_token_of(tokens)]]

----------------------------------------------------------------------------
(* The inputs: requests, bindings, clock readings, origin responses        *)

\* The most query parameters a request carries besides function_id and oait.
MaxExtra == 2

IP_CF == <<"1", ".", "1">>
IP_XFF == <<"3", ".", "3">>
SECRET == <<"s">>

str_join(a, sep, b) == a \o sep \o b

\* What the issuer hands out for (ip, secret, timestamp text): the text,
\* '-', and the digest over the timestamp as the verifier will format it.
issue(ip, secret, ts_text) ==
    ts_text \o <<"-">> \o generate_hash(ip, secret, parse_f64(ts_text).v)

IssuedProofs ==
    {issue(IP_CF, SECRET, ts) : ts \in {<<"1">>, <<"5">>, <<"9">>}}
    \cup {issue(IP_XFF, SECRET, ts) : ts \in {<<"5">>, <<"9">>}}

\* Segments offered where the handler looks for the proof token.
ProofSegments == IssuedProofs \cup {<<"a">>, <<"5", "-", "b", "b">>}

AppTokens == {<<>>, <<"a">>}
AccessTokens == {None, Some(<<>>), Some(<<"c">>)}

\* first ++ second [++ third]
composite(first, second, third) ==
    str_join(first, <<"+", "+">>, second)
    \o (IF third = None THEN <<>> ELSE <<"+", "+">> \o third.v)

\* The oait values: application token first, proof token first, and one
\* value with no delimiter at all.
CompositeTokens ==
    {composite(app, proof, acc) :
        app \in AppTokens, proof \in ProofSegments, acc \in AccessTokens}
    \cup {composite(issue(IP_CF, SECRET, <<"5">>), <<"a">>, acc) :
            acc \in {None, Some(<<"c">>)}}
    \cup {<<"a">>}

OTHER_FUNCTION == <<"O", "T", "H", "E", "R">>

ExtraPairs ==
    <<<<"x", "=", "1">>, <<"x", "=", "2">>, <<"f", "l", "a", "g">>,
      FUNCTION_ID \o <<"=">> \o OTHER_FUNCTION>>

RECURSIVE Subsequences(_)
\* The order-keeping selections of the elements of a sequence.
Subsequences(q) ==
    IF Len(q) = 0 THEN {<<>>}
    ELSE LET rest == Subsequences(Tail(q))
         IN  rest \cup {<<q[1]>> \o r : r \in rest}

\* The extra parameters a request may carry: a pair with a value, a second
\* pair of the same key, a key without '=', a second function_id.
ExtraParams == {q \in Subsequences(ExtraPairs) : Len(q) <= MaxExtra}

RECURSIVE join_pairs(_)
join_pairs(pairs) ==
    IF Len(pairs) = 0 THEN <<>>
    ELSE IF Len(pairs) = 1 THEN pairs[1]
    ELSE pairs[1] \o <<"&">> \o join_pairs(Tail(pairs))

pair(key, value) == key \o <<"=">> \o value

\* url.query(): None for a URL without '?', else the text after it.
query_of(pairs) == IF Len(pairs) = 0 THEN None ELSE Some(join_pairs(pairs))

LoginQueries ==
    {query_of(<<pair(FUNCTION_ID, APPS_LOGIN_DEFAULT)>> \o oait \o extra) :
        oait \in {<<>>, <<pair(OAIT, <<>>)>>}
                 \cup {<<pair(OAIT, t)>> : t \in CompositeTokens},
        extra \in ExtraParams}

OtherQueries ==
    {query_of(fid \o oait \o extra) :
        fid \in {<<>>, <<pair(FUNCTION_ID, OTHER_FUNCTION)>>},
        oait \in {<<>>, <<pair(OAIT, composite(<<"a">>,
                                    issue(IP_CF, SECRET, <<"5">>), None))>>},
        extra \in ExtraParams}
    \cup {Some(<<>>)}

HeaderSets ==
    {[h \in {"CF-Connecting-IP", "X-Forwarded-For"} |->
        IF h = "CF-Connecting-IP" THEN cf ELSE xff] :
        cf \in {None, Some(IP_CF)},
        xff \in {None, Some(<<" ">> \o IP_XFF \o <<" ", ",">> \o IP_CF)}}
    \cup {[h \in {"CF-Connecting-IP", "X-Forwarded-For"} |->
            IF h = "CF-Connecting-IP" THEN Some(<<>>) ELSE Some(IP_XFF)]}

Requests ==
    {[method |-> mb[1], body |-> mb[2], headers |-> h, query |-> q] :
        mb \in {<<"GET", <<>>>>, <<"POST", <<"b">>>>},
        h \in HeaderSets,
        q \in LoginQueries \cup OtherQueries}

Envs ==
    {[HMAC_SECRET |-> None, TOKEN_VALIDITY_SECONDS |-> None],
     [HMAC_SECRET |-> Some(<<>>), TOKEN_VALIDITY_SECONDS |-> None],
     [HMAC_SECRET |-> Some(SECRET), TOKEN_VALIDITY_SECONDS |-> None],
     [HMAC_SECRET |-> Some(SECRET), TOKEN_VALIDITY_SECONDS |-> Some(<<"3">>)],
     [HMAC_SECRET |-> Some(SECRET), TOKEN_VALIDITY_SECONDS |-> Some(<<"x">>)]}

\* Date::now() / 1000.0
Clock == {Fin(7)}

OriginCookie(text) == <<SET_COOKIE, [fmt |-> text, arg |-> <<>>]>>

OriginResponses ==
    {[status |-> 302, body |-> "origin body", headers |-> <<>>],
     [status |-> 200, body |-> "origin body",
      headers |-> <<OriginCookie("sid=1"),
                    <<"x-origin", [fmt |-> "1", arg |-> <<>>]>>,
                    OriginCookie("CF_Authorization=old")>>]}

----------------------------------------------------------------------------
(* The handler as a state machine                                          *)

Init ==
    /\ pc = "idle"
    /\ req = None
    /\ env = None
    /\ now = None
    /\ local = NoLocals
    /\ sent = <<>>
    /\ origin = None
    /\ result = None
    /\ call = None
    /\ ret = None

\* fetch runs from its entry to its first return or to the send() it awaits.
Fetch ==
    /\ pc = "idle"
    /\ \E r \in Requests, e \in Envs, t \in Clock :
        \E h \in {handle(r, e, t)} :
            /\ req' = r
            /\ env' = e
            /\ now' = t
            /\ local' = h.loc
            /\ IF h.path = "returned"
               THEN /\ result' = h.ret
                    /\ sent' = sent
                    /\ pc' = "done"
               ELSE /\ result' = None
                    /\ pc' = "awaiting"
                    /\ IF h.path = "bypass"
                       THEN sent' = Append(sent, r)
                       ELSE \E q \in rewritten_queries(
                                        query_pairs_of(r.query).v,
                                        h.loc.forms_token) :
                                sent' = Append(sent, new_request(r, q))
    /\ UNCHANGED <<origin, call, ret>>

\* send().await resolves with the origin's response: the bypass returns it
\* as it is, the accepted path relays it.
OriginResponds ==
    /\ pc = "awaiting"
    /\ \E o \in OriginResponses :
        /\ origin' = Some(o)
        /\ result' = IF local.path = "bypass"
                     THEN [kind |-> "Response", status |-> o.status,
                           body |-> o.body, headers |-> o.headers]
                     ELSE relay_response(o, local.access_token)
    /\ pc' = "done"
    /\ UNCHANGED <<req, env, now, local, sent, call, ret>>

\* send().await fails: the error is the handler's result.
OriginFails ==
    /\ pc = "awaiting"
    /\ result' = Err("transport")
    /\ pc' = "done"
    /\ UNCHANGED <<req, env, now, local, sent, origin, call, ret>>

\* The request is over; nothing of it is kept for the next one.
Finish ==
    /\ pc = "done"
    /\ pc' = "idle"
    /\ req' = None
    /\ env' = None
    /\ now' = None
    /\ local' = NoLocals
    /\ sent' = <<>>
    /\ origin' = None
    /\ result' = None
    /\ UNCHANGED <<call, ret>>

Next == Fetch \/ OriginResponds \/ OriginFails \/ Finish

Spec == Init /\ [][Next]_vars

----------------------------------------------------------------------------
(* Direct calls of extract_client_ip and verify_hmac_token                 *)

TimestampTexts ==
    {<<"1">>, <<"5">>, <<"5", ".", "0">>, <<"+", "5">>, <<"0", "5">>,
     <<"9">>, <<"N", "a", "N">>, <<"i", "n", "f">>}

VerifyTokens ==
    {issue(ip, k, ts) : ip \in {IP_CF, IP_XFF}, k \in {SECRET, <<"k">>},
                        ts \in TimestampTexts}
    \cup {<<"x">> \o <<"-">> \o generate_hash(IP_CF, SECRET, Fin(5)),
          <<"-">> \o generate_hash(IP_CF, SECRET, Fin(5)),
          <<"5", ".", "0", "-">>
            \o base64_encode(hmac_sha256(SECRET,
                   IP_CF \o <<":", "5", ".", "0">>)),
          <<"5", "-", "b", "b">>,
          <<"5", "-", "b", "b", "A", "=", "=">>,
          <<"5">>,
          <<"5", "-", "1">> \o <<"-">> \o generate_hash(IP_CF, SECRET, Fin(5)),
          <<"-", "5">> \o <<"-">> \o generate_hash(IP_CF, SECRET, Fin(-5))}

VerifyCalls ==
    {[fn |-> "verify_hmac_token", client_ip |-> ip, provided_token |-> tok,
      secret |-> k, validity_seconds |-> w, current_time |-> t] :
        ip \in {IP_CF, IP_XFF}, tok \in VerifyTokens, k \in {SECRET, <<"k">>},
        w \in {Fin(3), Fin(TOKEN_VALIDITY_SECONDS)},
        t \in {Fin(7), Fin(TOKEN_VALIDITY_SECONDS + 9)}}

CfValues == {None, Some(<<>>), Some(IP_CF), Some(<<":", ":", "1">>)}

XffValues ==
    {None, Some(<<>>), Some(IP_XFF), Some(IP_XFF \o <<",">> \o IP_CF),
     Some(IP_XFF \o <<" ", ",", " ">> \o IP_CF),
     Some(<<",">> \o IP_CF),
     Some(IP_CF \o <<" ", " ", ",">> \o IP_XFF \o <<",">> \o IP_CF)}

IpCalls ==
    {[fn |-> "extract_client_ip",
      headers |-> [h \in {"CF-Connecting-IP", "X-Forwarded-For"} |->
                     IF h = "CF-Connecting-IP" THEN cf ELSE xff]] :
        cf \in CfValues, xff \in XffValues}

InitFn ==
    /\ pc = "idle"
    /\ req = None
    /\ env = None
    /\ now = None
    /\ local = NoLocals
    /\ sent = <<>>
    /\ origin = None
    /\ result = None
    /\ call \in VerifyCalls \cup IpCalls
    /\ ret = None

CallVerify ==
    /\ ret = None
    /\ call.fn = "verify_hmac_token"
    /\ ret' = Some(verify_hmac_token(call.client_ip, call.provided_token,
                                     call.secret, call.validity_seconds,
                                     call.current_time))
    /\ UNCHANGED <<pc, req, env, now, local, sent, origin, result, call>>

CallExtractIp ==
    /\ ret = None
    /\ call.fn = "extract_client_ip"
    /\ ret' = Some(extract_client_ip(call.headers))
    /\ UNCHANGED <<pc, req, env, now, local, sent, origin, result, call>>

NextFn == CallVerify \/ CallExtractIp

SpecFn == InitFn /\ [][NextFn]_vars

----------------------------------------------------------------------------
(* What the properties below speak about                                   *)

\* A proof token timestamp-digest that is correct for (ip, secret) and not
\* older than the window at time t: exactly two '-' parts, the first a
\* timestamp, the second the digest over "<ip>:<timestamp>".
ProofCorrect(ip, proof, secret, window, t) ==
    LET parts == split(proof, <<"-">>)
        ts == parse_f64(parts[1])
    IN  /\ Len(parts) = 2
        /\ ts # None
        /\ ~f64_gt(f64_sub(t, ts.v), window)
        /\ parts[2] = generate_hash(ip, secret, ts.v)

Count(seq, x) == Cardinality({i \in 1..Len(seq) : seq[i] = x})

InFlight == pc \in {"awaiting", "done"}
Secret == secret_of(env)
Window == token_validity_seconds_of(env)
ClientIp == extract_client_ip(req.headers)
QueryPairs == query_pairs_of(req.query)
\* The handler read function_id=APPS_LOGIN_DEFAULT from a non-empty secret's
\* request.
LoginRequest ==
    /\ InFlight
    /\ ~is_empty(Secret)
    /\ QueryPairs # None
    /\ map_get(QueryPairs.v, FUNCTION_ID) = Some(APPS_LOGIN_DEFAULT)
Oait == map_get(QueryPairs.v, OAIT)
HasToken == LoginRequest /\ Oait # None /\ ~is_empty(Oait.v)
Segments == split(Oait.v, <<"+", "+">>)
Accepted == InFlight /\ local.verified = "true"

\* The outbound request's query, pair by pair.
OutPairs == raw_pairs(sent[1].query)
InPairs == raw_pairs(req.query)
KeyOf(p) == split(p, <<"=">>)[1]
OutOaitPairs == SelectSeq(OutPairs, LAMBDA p : KeyOf(p) = OAIT)
OriginResponse ==
    [kind |-> "Response", status |-> origin.v.status,
     body |-> origin.v.body, headers |-> origin.v.headers]

----------------------------------------------------------------------------
(* C1 *)

----------------------------------------------------------------------------
(* C2 *)

\* C2: a login request whose oait parameter is absent or empty is answered
\* 400 "Missing oait parameter" and nothing is forwarded.
C2_MissingOaitIs400 ==
    (pc = "done" /\ LoginRequest /\ (Oait = None \/ is_empty(Oait.v)))
        => /\ result = from_html("Missing oait parameter", 400)
           /\ sent = <<>>

----------------------------------------------------------------------------
(* C3 *)

\* No function_id=APPS_LOGIN_DEFAULT pair in the inbound query text.
NotLogin ==
    \A i \in 1..Len(InPairs) :
        InPairs[i] # pair(FUNCTION_ID, APPS_LOGIN_DEFAULT)

\* C3: with a non-empty secret, a request whose function_id is absent or is
\* not APPS_LOGIN_DEFAULT, with or without a query string and whatever its
\* other parameters, is forwarded as it came, without token parsing or
\* verification, and the origin's response is relayed.
C3_BypassUntouched ==
    (InFlight /\ ~is_empty(Secret) /\ NotLogin)
        => /\ sent = <<req>>
           /\ local.verified = "not_called"
           /\ (pc = "done" /\ origin # None) => result = OriginResponse

----------------------------------------------------------------------------
(* C4 *)

----------------------------------------------------------------------------
(* C5 *)

\* C5 as stated: a non-empty oait without two ++-separated parts, the token
\* "++app" among them, is answered 403 "Invalid token format".
C5_NoTwoPartsIsBadFormat ==
    (pc = "done" /\ HasToken
     /\ (Len(Segments) < 2 \/ (Len(Segments) = 2 /\ is_empty(Segments[1]))))
        => /\ result = from_html("Invalid token format", 403)
           /\ sent = <<>>

\* C5 amended: a non-empty oait with no ++ in it is answered 403 "Invalid
\* token format" and nothing is forwarded; "++app" splits into an empty
\* application token and the segment app, which goes to the verifier and is
\* answered 403 "Invalid or expired token" unless it is a correct proof.
C5_NoDelimiterIsBadFormat ==
    /\ (pc = "done" /\ HasToken /\ Len(Segments) < 2)
          => /\ result = from_html("Invalid token format", 403)
             /\ sent = <<>>
             /\ local.verified = "not_called"
    /\ (pc = "done" /\ HasToken /\ Len(Segments) = 2 /\ is_empty(Segments[1])
        /\ ~ProofCorrect(ClientIp, trim(Segments[2]), Secret, Window, now))
          => /\ result = from_html("Invalid or expired token", 403)
             /\ sent = <<>>
             /\ local.verified = "false"

\* An oait without any ++ was answered 403 "Invalid token format".
C5_Witness ==
    /\ pc = "done"
    /\ HasToken
    /\ Oait.v = <<"a">>
    /\ result = from_html("Invalid token format", 403)

----------------------------------------------------------------------------
(* C6 *)

VerifyReturned == ret # None /\ call.fn = "verify_hmac_token"
CallParts == split(call.provided_token, <<"-">>)
CallTimestamp == parse_f64(CallParts[1])
\* The token has two '-' parts, a finite timestamp and the right digest.
CallDigestMatches ==
    /\ Len(CallParts) = 2
    /\ CallTimestamp # None
    /\ CallParts[2] = generate_hash(call.client_ip, call.secret,
                                    CallTimestamp.v)

\* C6: verify_hmac_token returns true exactly when the token splits on '-'
\* into two parts, the first parses as a timestamp t, now - t does not
\* exceed the window, and the second is the digest over "<ip>:<t>".  So a
\* correct proof inside the window is accepted, a proof older than the
\* window is rejected whatever its digest, and a correct proof with a
\* timestamp in the future is accepted.
C6_VerifyIff ==
    VerifyReturned =>
        /\ ret.v = ProofCorrect(call.client_ip, call.provided_token,
                                call.secret, call.validity_seconds,
                                call.current_time)
        /\ (CallDigestMatches /\ CallTimestamp.v.k = "fin"
            /\ call.current_time.v - CallTimestamp.v.v
                  <= call.validity_seconds.v) => ret.v = TRUE
        /\ (Len(CallParts) = 2 /\ CallTimestamp # None
            /\ CallTimestamp.v.k = "fin"
            /\ call.current_time.v - CallTimestamp.v.v
                  > call.validity_seconds.v) => ret.v = FALSE
        /\ (CallDigestMatches /\ CallTimestamp.v.k = "fin"
            /\ CallTimestamp.v.v > call.current_time.v) => ret.v = TRUE

\* A correct proof whose timestamp lies in the future was accepted.
C6_Witness ==
    /\ VerifyReturned
    /\ CallDigestMatches
    /\ CallTimestamp.v.k = "fin"
    /\ CallTimestamp.v.v > call.current_time.v
    /\ ret.v = TRUE

----------------------------------------------------------------------------
(* C7 *)

\* C7: extract_client_ip returns the CF-Connecting-IP value if that header
\* is present and non-empty, otherwise the trimmed first comma-separated
\* entry of X-Forwarded-For, otherwise "127.0.0.1"; an empty
\* CF-Connecting-IP does not win over an X-Forwarded-For entry.
C7_FirstNonEmptyMatch ==
    (ret # None /\ call.fn = "extract_client_ip") =>
        LET cf == call.headers["CF-Connecting-IP"]
            xff == call.headers["X-Forwarded-For"]
        IN  ret.v = IF cf # None /\ ~is_empty(cf.v) THEN cf.v
                    ELSE IF xff # None THEN trim(split(xff.v, <<",">>)[1])
                    ELSE LOOPBACK

----------------------------------------------------------------------------
(* C8 *)

CookieHeader == <<SET_COOKIE, cookie(local.access_token)>>
HeaderEntries(hs) == {hs[i] : i \in 1..Len(hs)}

\* C8: on the accepted path the caller gets the origin's status, body and
\* every origin header (its Set-Cookie headers too); a non-empty access
\* token adds one CF_Authorization Set-Cookie header on top of them, an
\* empty or absent one leaves the headers exactly the origin's; the cookie
\* is never added on the bypass or on a rejection.
C8_RelayPlusCookie ==
    /\ (pc = "done" /\ origin = None /\ result.kind = "Response")
          => \A h \in HeaderEntries(result.headers) : h[1] # SET_COOKIE
    /\ (pc = "done" /\ origin # None) =>
        IF Accepted
        THEN /\ result.status = origin.v.status
             /\ result.body = origin.v.body
             /\ \A h \in HeaderEntries(origin.v.headers) \cup {CookieHeader} :
                   Count(result.headers, h)
                     = Count(origin.v.headers, h)
                       + (IF h = CookieHeader /\ ~is_empty(local.access_token)
                          THEN 1 ELSE 0)
             /\ is_empty(local.access_token)
                   => result.headers = origin.v.headers
        ELSE result = OriginResponse

----------------------------------------------------------------------------
(* C9 *)

\* C9: the rewrite keeps every inbound pair whose key is not oait as often
\* as it came, with its value, adds no pair of another key, and carries
\* oait at most once, exactly when the application token is non-empty.
C9_RewriteKeepsEveryPair ==
    (Accepted /\ sent # <<>>) =>
        /\ \A p \in HeaderEntries(InPairs) \cup HeaderEntries(OutPairs) :
              KeyOf(p) # OAIT => Count(OutPairs, p) = Count(InPairs, p)
        /\ Len(OutOaitPairs) = IF is_empty(local.forms_token) THEN 0 ELSE 1

----------------------------------------------------------------------------
(* C10 *)

\* The oait text is app ++ proof or app ++ proof ++ access for some split
\* of it in which the proof is correct for the resolved IP and the secret.
CarriesCorrectProof ==
    \E i \in 1..Len(Oait.v), j \in 1..Len(Oait.v) :
        /\ i + 2 <= j
        /\ SubSeq(Oait.v, i, i + 1) = <<"+", "+">>
        /\ find(SubSeq(Oait.v, 1, i - 1), <<"+", "+">>) = 0
        /\ \/ j = Len(Oait.v)
           \/ /\ j + 2 <= Len(Oait.v)
              /\ SubSeq(Oait.v, j + 1, j + 2) = <<"+", "+">>
        /\ ProofCorrect(ClientIp, SubSeq(Oait.v, i + 2, j), Secret, Window,
                        now)

\* C10: a login request whose composite token carries a proof token
\* correctly issued for the resolved client IP, the secret and an in-window
\* timestamp is accepted and forwarded, whatever base64 digest the proof
\* has and whatever application and access tokens accompany it.
C10_EveryCorrectProofAccepted ==
    (HasToken /\ CarriesCorrectProof) => Len(sent) = 1 /\ Accepted

====
